---- MODULE Spec2Model ----
(***************************************************************************)
(* The report pipeline of wandb_results.py: filter_runs,                   *)
(* remove_constant_columns, get_columns_mapper and main.                   *)
(*                                                                         *)
(* A Python str that the code inspects character by character (a column    *)
(* name, a dict key) is a sequence of one-character strings; a str that    *)
(* is only compared or printed (a group, a job type, a cell) is a string.  *)
(* A float is an integer count of 10^-7 units, an int is itself.           *)
(***************************************************************************)
EXTENDS Integers, Sequences, FiniteSets, TLC

VARIABLES runs, opt, pc, i, output, df, err, saved

vars == <<runs, opt, pc, i, output, df, err, saved>>

----------------------------------------------------------------------------
(* Python str methods used on column names *)

LowerChars == <<"a","b","c","d","e","f","g","h","i","j","k","l","m",
                "n","o","p","q","r","s","t","u","v","w","x","y","z">>

UpperChars == <<"A","B","C","D","E","F","G","H","I","J","K","L","M",
                "N","O","P","Q","R","S","T","U","V","W","X","Y","Z">>

IndexIn(c, s) ==
    IF \E k \in 1..Len(s) : s[k] = c
    THEN CHOOSE k \in 1..Len(s) : s[k] = c
    ELSE 0

\* the characters of the names: the letters, the digits, the separators
Chars ==
    {LowerChars[k] : k \in 1..Len(LowerChars)}
    \cup {UpperChars[k] : k \in 1..Len(UpperChars)}
    \cup {"0","1","2","3","4","5","6","7","8","9","_","/"," "}

CasedChars ==
    {LowerChars[k] : k \in 1..Len(LowerChars)}
    \cup {UpperChars[k] : k \in 1..Len(UpperChars)}

LowerMap ==
    [c \in Chars |->
        IF IndexIn(c, UpperChars) # 0 THEN LowerChars[IndexIn(c, UpperChars)] ELSE c]

UpperMap ==
    [c \in Chars |->
        IF IndexIn(c, LowerChars) # 0 THEN UpperChars[IndexIn(c, LowerChars)] ELSE c]

IsCased(c) == c \in CasedChars

ToLowerChar(c) == LowerMap[c]

ToUpperChar(c) == UpperMap[c]

\* str.lower()
Lower(s) == [k \in 1..Len(s) |-> ToLowerChar(s[k])]

\* str.title(): a cased character is upper-cased when the character before
\* it is not cased, lower-cased when it is
Title(s) ==
    [k \in 1..Len(s) |->
        IF ~IsCased(s[k]) THEN s[k]
        ELSE IF k > 1 /\ IsCased(s[k-1]) THEN ToLowerChar(s[k])
        ELSE ToUpperChar(s[k])]

\* str.replace(old, new): occurrences left to right, not overlapping
RECURSIVE Replace(_, _, _)
Replace(s, old, new) ==
    IF Len(s) < Len(old) \/ Len(old) = 0 THEN s
    ELSE IF SubSeq(s, 1, Len(old)) = old
         THEN new \o Replace(SubSeq(s, Len(old) + 1, Len(s)), old, new)
         ELSE <<s[1]>> \o Replace(Tail(s), old, new)

\* sub in s
Contains(sub, s) ==
    \E k \in 1..(Len(s) - Len(sub) + 1) : SubSeq(s, k, k + Len(sub) - 1) = sub

\* s.startswith(prefix)
StartsWith(s, prefix) ==
    Len(s) >= Len(prefix) /\ SubSeq(s, 1, Len(prefix)) = prefix

----------------------------------------------------------------------------
(* Cell values *)

Unit == 10 * 1000 * 1000

\* a cell: its type t, its number v (of an int or a float), its text s (of a str)
IntVal(n) == [t |-> "int", v |-> n, s |-> ""]
FloatVal(n) == [t |-> "float", v |-> n, s |-> ""]
StrVal(x) == [t |-> "str", v |-> 0, s |-> x]
NaN == [t |-> "nan", v |-> 0, s |-> ""]

\* isinstance(x, float): a float64 cell, a Python float, or the NaN of a
\* missing cell
IsFloat(x) == x.t \in {"float", "nan"}

RECURSIVE Pow10(_)
Pow10(d) == IF d = 0 THEN 1 ELSE 10 * Pow10(d - 1)

Digits == <<"0","1","2","3","4","5","6","7","8","9">>

RECURSIVE NatStr(_)
NatStr(n) ==
    IF n < 10 THEN Digits[n + 1] ELSE NatStr(n \div 10) \o Digits[(n % 10) + 1]

\* the digits of the fraction f (in 10^-7 units, scale the power of ten above
\* it), trailing zeros dropped
RECURSIVE FracStr(_, _)
FracStr(f, scale) ==
    IF f = 0 \/ scale = 1 THEN ""
    ELSE Digits[(f \div (scale \div 10)) + 1] \o FracStr(f % (scale \div 10), scale \div 10)

RECURSIVE StripZeros(_)
StripZeros(n) == IF n # 0 /\ n % 10 = 0 THEN StripZeros(n \div 10) ELSE n

RECURSIVE NumDigits(_)
NumDigits(n) == IF n < 10 THEN 1 ELSE 1 + NumDigits(n \div 10)

\* repr of a float below 0.0001: d.ddde-0X
SmallStr(n) ==
    LET m == StripZeros(n)
        high == Pow10(NumDigits(m) - 1)
    IN  NatStr(m \div high)
        \o (IF high > 1 THEN "." \o FracStr(m % high, high) ELSE "")
        \o "e-0" \o NatStr(8 - NumDigits(n))

AbsStr(x) ==
    IF x.t = "int" THEN NatStr(x.v)
    ELSE IF x.v > 0 /\ x.v < 1000 THEN SmallStr(x.v)
    ELSE NatStr(x.v \div Unit)
         \o "." \o (IF x.v % Unit = 0 THEN "0" ELSE FracStr(x.v % Unit, Unit))

\* str(x) as Series.apply(str) computes it
Str(x) ==
    CASE x.t = "str" -> x.s
      [] x.t = "nan" -> "nan"
      [] OTHER -> IF x.v < 0
                  THEN "-" \o AbsStr([x EXCEPT !.v = 0 - x.v])
                  ELSE AbsStr(x)

\* numpy's round of a float to d decimals: to the nearest multiple of
\* 10^-d, a tie to the even one
RoundTo(v, d) ==
    LET m == Unit \div Pow10(d)
        q == v \div m
        r == v % m
    IN  IF 2 * r < m THEN q * m
        ELSE IF 2 * r > m THEN (q + 1) * m
        ELSE IF q % 2 = 0 THEN q * m ELSE (q + 1) * m

----------------------------------------------------------------------------
(* Python dict: insertion-ordered, a sequence of [k, v] entries *)

DictHas(d, key) == \E n \in 1..Len(d) : d[n].k = key

DictGet(d, key) == d[CHOOSE n \in 1..Len(d) : d[n].k = key].v

\* d[key] = val: an existing key keeps its place
DictSet(d, key, val) ==
    IF DictHas(d, key)
    THEN [n \in 1..Len(d) |-> IF d[n].k = key THEN [k |-> key, v |-> val] ELSE d[n]]
    ELSE Append(d, [k |-> key, v |-> val])

\* d.update(e)
RECURSIVE DictUpdate(_, _)
DictUpdate(d, e) ==
    IF e = <<>> THEN d
    ELSE DictUpdate(DictSet(d, Head(e).k, Head(e).v), Tail(e))

DictKeys(d) == [n \in 1..Len(d) |-> d[n].k]

----------------------------------------------------------------------------
(* Names the code spells out *)

N_group == <<"g","r","o","u","p">>
N_job_type == <<"j","o","b","_","t","y","p","e">>
N_run_name == <<"r","u","n","_","n","a","m","e">>
N_timestamp == <<"t","i","m","e","s","t","a","m","p">>
N__timestamp == <<"_">> \o N_timestamp
N_different == <<"d","i","f","f","e","r","e","n","t">>
N_accuracy == <<"a","c","c","u","r","a","c","y">>
N_f1_score == <<"f","1","_","s","c","o","r","e">>
N_lr == <<"l","r">>
N_ssim == <<"s","s","i","m">>
N_psnr == <<"p","s","n","r">>
N_sam == <<"s","a","m">>
N_ergas == <<"e","r","g","a","s">>

----------------------------------------------------------------------------
(* Exceptions: type "" is no exception; at is the stage that raised *)

NoError == [type |-> "", key |-> <<>>, at |-> ""]

Raise(type, key, at) == [type |-> type, key |-> key, at |-> at]

NoFile == <<>>

NoFrame == [index |-> <<>>, columns |-> <<>>, rows |-> <<>>]

----------------------------------------------------------------------------
(* filter_runs *)

\* the test of line 29
Matches(run) ==
    /\ (run.group = opt.group_filter \/ opt.group_filter = "")
    /\ (run.job_type = opt.jt_filter \/ opt.jt_filter = "")

\* run_params after lines 31-34
IdentityParams(run) ==
    << [k |-> N_group, v |-> StrVal(run.group)],
       [k |-> N_job_type, v |-> StrVal(run.job_type)],
       [k |-> N_run_name, v |-> StrVal(run.name)] >>

IsPublicEntry(e) == ~StartsWith(e.k, <<"_">>)

\* config of lines 38-39
PublicConfig(run) == SelectSeq(run.config, IsPublicEntry)

\* config_filter and config_filter[0].lower() != "different"
NamedMode ==
    opt.config_filter # <<>> /\ Lower(opt.config_filter[1]) # N_different

\* config_filter and config_filter[0].lower() == 'different'
DifferentMode ==
    opt.config_filter # <<>> /\ Lower(opt.config_filter[1]) = N_different

\* CopyNamed with config.get(config_param) semantics: a name that config
\* lacks is passed over
RECURSIVE CopyNamedPresent(_, _, _)
CopyNamedPresent(params, config, names) ==
    IF names = <<>> THEN [ok |-> TRUE, params |-> params, key |-> <<>>]
    ELSE CopyNamedPresent(IF DictHas(config, Head(names))
                          THEN DictSet(params, Head(names), DictGet(config, Head(names)))
                          ELSE params,
                          config, Tail(names))

\* lines 42-43: run_params[config_param] = config[config_param], a KeyError at
\* the first name that config lacks
RECURSIVE CopyNamed(_, _, _)
CopyNamed(params, config, names) ==
    IF names = <<>> THEN [ok |-> TRUE, params |-> params, key |-> <<>>]
    ELSE IF ~DictHas(config, Head(names))
         THEN [ok |-> FALSE, params |-> params, key |-> Head(names)]
         ELSE CopyNamed(DictSet(params, Head(names), DictGet(config, Head(names))),
                        config, Tail(names))

\* lines 41-45
WithConfig(run) ==
    IF NamedMode
    THEN CopyNamed(IdentityParams(run), PublicConfig(run), opt.config_filter)
    ELSE [ok |-> TRUE,
          params |-> DictUpdate(IdentityParams(run), PublicConfig(run)),
          key |-> <<>>]

\* lines 58-66: the requested metrics the summary holds, copied by name
RECURSIVE CopyResults(_, _, _)
CopyResults(params, summary, names) ==
    IF names = <<>> THEN params
    ELSE CopyResults(IF DictHas(summary, Head(names))
                     THEN DictSet(params, Head(names), DictGet(summary, Head(names)))
                     ELSE params,
                     summary, Tail(names))

\* ValidResult with the flag never looked at
ValidResultAlways(summary) == TRUE

\* valid_result after the loop of lines 58-66
ValidResult(summary) ==
    \E n \in 1..Len(opt.results_filter) : DictHas(summary, opt.results_filter[n])

\* lines 56-73 for a run whose run_params hold identity and config
WithSummary(params, summary, out) ==
    IF opt.results_filter # <<>>
    THEN IF ~ValidResult(summary) THEN [output |-> out, err |-> NoError]
         ELSE IF ~opt.include_timestamp
         THEN [output |-> Append(out, CopyResults(params, summary, opt.results_filter)),
               err |-> NoError]
         ELSE IF ~DictHas(summary, N__timestamp)
         THEN [output |-> out, err |-> Raise("KeyError", N__timestamp, "filter_runs")]
         ELSE [output |-> Append(out,
                   DictSet(CopyResults(params, summary, opt.results_filter),
                           N_timestamp, DictGet(summary, N__timestamp))),
               err |-> NoError]
    ELSE [output |-> Append(out, DictUpdate(params, summary)), err |-> NoError]

\* one pass of the loop of lines 28-73
LoopBody(run, out) ==
    IF ~Matches(run) THEN [output |-> out, err |-> NoError]
    ELSE LET c == WithConfig(run)
         IN  IF ~c.ok
             THEN [output |-> out, err |-> Raise("KeyError", c.key, "filter_runs")]
             ELSE WithSummary(c.params, run.summary, out)

(* pd.DataFrame(output): the columns are the keys in order of first
   appearance, a key a row lacks is NaN, and a column of numbers with an int
   beside a float or a NaN becomes float64 *)

RECURSIVE AddKeys(_, _)
AddKeys(cols, keys) ==
    IF keys = <<>> THEN cols
    ELSE AddKeys(IF \E n \in 1..Len(cols) : cols[n] = Head(keys)
                 THEN cols ELSE Append(cols, Head(keys)),
                 Tail(keys))

RECURSIVE AllColumns(_, _)
AllColumns(out, cols) ==
    IF out = <<>> THEN cols
    ELSE AllColumns(Tail(out), AddKeys(cols, DictKeys(Head(out))))

RawCell(row, col) == IF DictHas(row, col) THEN DictGet(row, col) ELSE NaN

Dtype(cells) ==
    IF \E x \in cells : x.t = "str" THEN "object"
    ELSE IF \A x \in cells : x.t = "int" THEN "int64"
    ELSE "float64"

Coerce(x, dtype) ==
    IF dtype = "float64" /\ x.t = "int" THEN FloatVal(x.v * Unit) ELSE x

DataFrame(out) ==
    LET cols == AllColumns(out, <<>>)
        dtype(c) == Dtype({RawCell(out[r], cols[c]) : r \in 1..Len(out)})
    IN  [index |-> [r \in 1..Len(out) |-> r - 1],
         columns |-> cols,
         rows |-> [r \in 1..Len(out) |->
                     [c \in 1..Len(cols) |-> Coerce(RawCell(out[r], cols[c]), dtype(c))]]]

\* the cells of column number c
Column(d, c) == [r \in 1..Len(d.rows) |-> d.rows[r][c]]

ColumnDtype(d, c) == Dtype({d.rows[r][c] : r \in 1..Len(d.rows)})

\* the position of the column named col, 0 when there is none
ColumnAt(d, col) == IndexIn(col, d.columns)

----------------------------------------------------------------------------
(* remove_constant_columns *)

\* IsConstantColumn on the cells themselves, not on their str
IsConstantColumnByValue(d, c) ==
    Cardinality({d.rows[r][c] : r \in 1..Len(d.rows)}) = 1

\* lines 97-103: len(set(df[col].apply(str))) == 1
IsConstantColumn(d, c) ==
    Cardinality({Str(d.rows[r][c]) : r \in 1..Len(d.rows)}) = 1

\* df.drop(columns=...): the frame with the columns numbered in keep
TakeColumns(d, keep) ==
    [index |-> d.index,
     columns |-> [n \in 1..Len(keep) |-> d.columns[keep[n]]],
     rows |-> [r \in 1..Len(d.rows) |-> [n \in 1..Len(keep) |-> d.rows[r][keep[n]]]]]

RemoveConstantColumns(d) ==
    LET varies(c) == ~IsConstantColumn(d, c)
    IN  TakeColumns(d, SelectSeq([c \in 1..Len(d.columns) |-> c], varies))

----------------------------------------------------------------------------
(* The pandas calls of main *)

\* x sorts strictly before y in descending order, NaN last
Before(x, y) ==
    IF x.t = "nan" THEN FALSE ELSE IF y.t = "nan" THEN TRUE ELSE x.v > y.v

\* row a sorts strictly before row b by the columns numbered in cs
RECURSIVE RowBefore(_, _, _, _)
RowBefore(d, cs, a, b) ==
    IF cs = <<>> THEN FALSE
    ELSE IF Before(d.rows[a][Head(cs)], d.rows[b][Head(cs)]) THEN TRUE
    ELSE IF Before(d.rows[b][Head(cs)], d.rows[a][Head(cs)]) THEN FALSE
    ELSE RowBefore(d, Tail(cs), a, b)

\* the rows numbered in p, each with its index label
TakeRows(d, p) ==
    [index |-> [n \in 1..Len(p) |-> d.index[p[n]]],
     columns |-> d.columns,
     rows |-> [n \in 1..Len(p) |-> d.rows[p[n]]]]

\* df.sort_values(by, ascending=False): the default kind, quicksort, is not
\* stable, so by one column the rows of a tie come in any order; by several
\* columns the sort is a stable lexsort
SortOrders(d, cs) ==
    {p \in Permutations(1..Len(d.rows)) :
        \A u, v \in 1..Len(d.rows) :
            u < v => /\ ~RowBefore(d, cs, p[v], p[u])
                     /\ (Len(cs) > 1 /\ ~RowBefore(d, cs, p[u], p[v])) => p[u] < p[v]}

\* StableOrder with keep='last': the rows of a tie in reverse order
LastFirstOrder(d, c) ==
    CHOOSE p \in Permutations(1..Len(d.rows)) :
        \A u, v \in 1..Len(d.rows) :
            u < v => /\ ~Before(d.rows[p[v]][c], d.rows[p[u]][c])
                     /\ ~Before(d.rows[p[u]][c], d.rows[p[v]][c]) => p[u] > p[v]

\* the order of Series.nlargest(keep='first'): descending, NaN last, the rows
\* of a tie in the order they had
StableOrder(d, c) ==
    CHOOSE p \in Permutations(1..Len(d.rows)) :
        \A u, v \in 1..Len(d.rows) :
            u < v => /\ ~Before(d.rows[p[v]][c], d.rows[p[u]][c])
                     /\ ~Before(d.rows[p[u]][c], d.rows[p[v]][c]) => p[u] < p[v]

Min(a, b) == IF a < b THEN a ELSE b

\* df.nlargest(n, column) on a numeric column numbered c
NLargest(d, n, c) ==
    IF n <= 0 \/ Len(d.rows) = 0 THEN TakeRows(d, <<>>)
    ELSE TakeRows(d, SubSeq(StableOrder(d, c), 1, Min(n, Len(d.rows))))

\* the if/elif chain of lines 149-164: the marker looked for, whether the
\* name is lower-cased first, the decimals
RoundBranches ==
    << [marker |-> N_accuracy,  lower |-> FALSE, decimals |-> 2],
       [marker |-> N_f1_score,  lower |-> FALSE, decimals |-> 3],
       [marker |-> N_lr,        lower |-> FALSE, decimals |-> 6],
       [marker |-> N_ssim,      lower |-> TRUE,  decimals |-> 4],
       [marker |-> N_psnr,      lower |-> TRUE,  decimals |-> 3],
       [marker |-> N_sam,       lower |-> TRUE,  decimals |-> 3],
       [marker |-> N_ergas,     lower |-> TRUE,  decimals |-> 3],
       [marker |-> N_timestamp, lower |-> TRUE,  decimals |-> 0] >>

BranchMatches(b, col) ==
    Contains(b.marker, IF b.lower THEN Lower(col) ELSE col)

\* df[col][0] looks the label 0 up in the index: the position of a label,
\* 0 when the index does not hold it
LabelAt(d, label) == IndexIn(label, d.index)

\* the chain from the branches bs on for column number c: "none" when no
\* branch is taken, "KeyError" when df[col][0] finds no label 0, "round"
RECURSIVE RoundChain(_, _, _)
RoundChain(d, c, bs) ==
    IF bs = <<>> THEN [kind |-> "none", decimals |-> 0]
    ELSE IF ~BranchMatches(Head(bs), d.columns[c]) THEN RoundChain(d, c, Tail(bs))
    ELSE IF LabelAt(d, 0) = 0 THEN [kind |-> "KeyError", decimals |-> 0]
    ELSE IF IsFloat(d.rows[LabelAt(d, 0)][c])
         THEN [kind |-> "round", decimals |-> Head(bs).decimals]
         ELSE RoundChain(d, c, Tail(bs))

\* Series.round(k) of a float64 column
RoundCell(x, k) == IF x.t = "float" THEN FloatVal(RoundTo(x.v, k)) ELSE x

SetColumn(d, c, k) ==
    [d EXCEPT !.rows = [r \in 1..Len(d.rows) |->
                           [d.rows[r] EXCEPT ![c] = RoundCell(d.rows[r][c], k)]]]

\* the loop of lines 148-164 from column number c on. Series.round of an
\* object column either leaves it as it is or raises TypeError, by the pandas
\* version: objectRound is the one this build does
RECURSIVE RoundColumns(_, _, _)
RoundColumns(d, c, objectRound) ==
    IF c > Len(d.columns) THEN [df |-> d, err |-> NoError]
    ELSE LET what == RoundChain(d, c, RoundBranches)
         IN  IF what.kind = "KeyError"
             THEN [df |-> d, err |-> Raise("KeyError", <<"0">>, "round")]
             ELSE IF what.kind = "none"
             THEN RoundColumns(d, c + 1, objectRound)
             ELSE IF ColumnDtype(d, c) # "object"
             THEN RoundColumns(SetColumn(d, c, what.decimals), c + 1, objectRound)
             ELSE IF objectRound = "TypeError"
             THEN [df |-> d, err |-> Raise("TypeError", d.columns[c], "round")]
             ELSE RoundColumns(d, c + 1, objectRound)

----------------------------------------------------------------------------
(* get_columns_mapper *)

\* lines 115-121 for one column name
DisplayName(col) ==
    LET spaced == Replace(Replace(col, <<"/">>, <<" ">>), <<"_">>, <<" ">>)
        titled == Title(spaced)
    IN  Replace(Replace(titled, <<"L","r">>, <<"L","R">>), <<"N","n">>, <<"N","N">>)

\* the dict of raw name to display name
ColumnsMapper(d) ==
    [n \in 1..Len(d.columns) |-> [k |-> d.columns[n], v |-> DisplayName(d.columns[n])]]

\* df.rename(columns=mapper)
Rename(d, mapper) ==
    [d EXCEPT !.columns =
        [n \in 1..Len(d.columns) |->
            IF DictHas(mapper, d.columns[n]) THEN DictGet(mapper, d.columns[n])
            ELSE d.columns[n]]]

----------------------------------------------------------------------------
(* The steps of main *)

\* one run of the loop of filter_runs
FilterRun ==
    /\ pc = "filter_runs"
    /\ i <= Len(runs)
    /\ LET step == LoopBody(runs[i], output)
       IN  /\ output' = step.output
           /\ err' = step.err
           /\ pc' = IF step.err = NoError THEN "filter_runs" ELSE "raised"
    /\ i' = i + 1
    /\ UNCHANGED <<runs, opt, df, saved>>

\* FilterReturn without the check of lines 75-76
FilterReturnUnchecked ==
    /\ pc = "filter_runs"
    /\ i > Len(runs)
    /\ pc' = "sort"
    /\ err' = err
    /\ df' = IF DifferentMode
             THEN RemoveConstantColumns(DataFrame(output))
             ELSE DataFrame(output)
    /\ UNCHANGED <<runs, opt, i, output, saved>>

\* lines 75-82: the end of filter_runs
FilterReturn ==
    /\ pc = "filter_runs"
    /\ i > Len(runs)
    /\ IF Len(output) = 0
       THEN /\ pc' = "raised"
            /\ err' = Raise("Exception", <<>>, "filter_runs")
            /\ df' = df
       ELSE /\ pc' = "sort"
            /\ err' = err
            /\ df' = IF DifferentMode
                     THEN RemoveConstantColumns(DataFrame(output))
                     ELSE DataFrame(output)
    /\ UNCHANGED <<runs, opt, i, output, saved>>

\* the columns of by that the frame lacks
MissingColumns(d, by) == SelectSeq(by, LAMBDA col : ColumnAt(d, col) = 0)

\* lines 141-142. A sort key is a numeric column here: a column holding text
\* beside numbers raises TypeError
SortStage ==
    /\ pc = "sort"
    /\ IF opt.sort_by = <<>>
       THEN /\ pc' = "nlargest" /\ df' = df /\ err' = err
       ELSE IF MissingColumns(df, opt.sort_by) # <<>>
       THEN /\ pc' = "raised" /\ df' = df
            /\ err' = Raise("KeyError", Head(MissingColumns(df, opt.sort_by)), "sort")
       ELSE LET cs == [n \in 1..Len(opt.sort_by) |-> ColumnAt(df, opt.sort_by[n])]
            IN  IF \E n \in 1..Len(cs) : ColumnDtype(df, cs[n]) = "object"
                THEN /\ pc' = "raised" /\ df' = df
                     /\ err' = Raise("TypeError", <<>>, "sort")
                ELSE /\ pc' = "nlargest" /\ err' = err
                     /\ \E p \in SortOrders(df, cs) : df' = TakeRows(df, p)
    /\ UNCHANGED <<runs, opt, i, output, saved>>

\* lines 144-145
NLargestStage ==
    /\ pc = "nlargest"
    /\ IF opt.best_metric = <<>>
       THEN /\ pc' = "round" /\ df' = df /\ err' = err
       ELSE IF ColumnAt(df, opt.best_metric) = 0
       THEN /\ pc' = "raised" /\ df' = df
            /\ err' = Raise("KeyError", opt.best_metric, "nlargest")
       ELSE IF ColumnDtype(df, ColumnAt(df, opt.best_metric)) = "object"
       THEN /\ pc' = "raised" /\ df' = df
            /\ err' = Raise("TypeError", opt.best_metric, "nlargest")
       ELSE /\ pc' = "round" /\ err' = err
            /\ df' = NLargest(df, opt.n_largest, ColumnAt(df, opt.best_metric))
    /\ UNCHANGED <<runs, opt, i, output, saved>>

\* lines 147-164
RoundStage ==
    /\ pc = "round"
    /\ \E objectRound \in {"unchanged", "TypeError"} :
          LET r == RoundColumns(df, 1, objectRound)
          IN  /\ df' = r.df
              /\ err' = r.err
              /\ pc' = IF r.err = NoError THEN "rename" ELSE "raised"
    /\ UNCHANGED <<runs, opt, i, output, saved>>

\* lines 166-168
RenameStage ==
    /\ pc = "rename"
    /\ df' = Rename(df, ColumnsMapper(df))
    /\ pc' = "to_csv"
    /\ UNCHANGED <<runs, opt, i, output, err, saved>>

\* line 170
ToCsv ==
    /\ pc = "to_csv"
    /\ saved' = <<df>>
    /\ pc' = "done"
    /\ UNCHANGED <<runs, opt, i, output, df, err>>

Next ==
    \/ FilterRun
    \/ FilterReturn
    \/ SortStage
    \/ NLargestStage
    \/ RoundStage
    \/ RenameStage
    \/ ToCsv

----------------------------------------------------------------------------
(* Inputs *)

Entry(key, val) == [k |-> key, v |-> val]

RunRecord(group, job_type, name, config, summary) ==
    [group |-> group, job_type |-> job_type, name |-> name,
     config |-> config, summary |-> summary]

\* the run lists of at most n runs of a pool
RunLists(pool, n) == UNION {[1..k -> pool] : k \in 0..n}

\* the state main starts filter_runs in
Start(runLists, options) ==
    /\ runs \in runLists
    /\ opt \in options
    /\ pc = "filter_runs"
    /\ i = 1
    /\ output = <<>>
    /\ df = NoFrame
    /\ err = NoError
    /\ saved = NoFile

N__wandb == <<"_","w","a","n","d","b">>

(* The runs and options of filter_runs: two groups, two job types, a config
   with and without lr, with an underscore key, with a key named group; a
   summary with and without the metrics and _timestamp, with a key named
   run_name and with a key the config holds too. Floats are in 10^-7 units:
   0.01 is 100000, 0.8231 is 8231000, 30.5 is 305000000. *)
FilterPool ==
    { RunRecord("A", "t", "r1",
                <<Entry(N_lr, FloatVal(100000))>>,
                <<Entry(N_ssim, FloatVal(8231000)), Entry(N__timestamp, IntVal(100))>>),
      RunRecord("A", "t", "r2",
                <<Entry(N_lr, FloatVal(200000))>>,
                <<Entry(N_ssim, FloatVal(9102000)), Entry(N__timestamp, IntVal(200))>>),
      RunRecord("B", "e", "r3",
                <<Entry(N__wandb, IntVal(1)), Entry(N_lr, FloatVal(100000))>>,
                <<Entry(N_psnr, FloatVal(305000000))>>),
      RunRecord("A", "t", "r4",
                <<Entry(N__wandb, IntVal(1))>>,
                <<>>),
      RunRecord("A", "e", "r5",
                <<Entry(N_group, StrVal("X")), Entry(N_lr, FloatVal(100000))>>,
                <<Entry(N_run_name, StrVal("best")), Entry(N_lr, FloatVal(5000000)),
                  Entry(N_ssim, FloatVal(8231000)), Entry(N__timestamp, IntVal(100))>>) }

MaxRuns == 2

FilterOptions ==
    [group_filter : {"", "A"},
     jt_filter : {"", "t"},
     config_filter : {<<>>, <<N_lr>>, <<N__wandb, N_lr>>, <<N_different>>},
     results_filter : {<<>>, <<N_ssim>>, <<N_ssim, N_psnr>>},
     include_timestamp : BOOLEAN,
     sort_by : {<<>>},
     best_metric : {<<>>},
     n_largest : {5}]

Init == Start(RunLists(FilterPool, MaxRuns), FilterOptions)

Spec == Init /\ [][Next]_vars

(* The runs and options of the sort, top-N and rounding stages: runs of one
   group that differ in lr and ssim, one of them without ssim; 0.0000125 is
   125, 0.91025 is 9102500, 30.12345 is 301234500 *)
TopNPool ==
    { RunRecord("A", "t", "r1",
                <<Entry(N_lr, FloatVal(100000))>>,
                <<Entry(N_ssim, FloatVal(8231000)), Entry(N__timestamp, IntVal(100))>>),
      RunRecord("A", "t", "r2",
                <<Entry(N_lr, FloatVal(200000))>>,
                <<Entry(N_ssim, FloatVal(9102000)), Entry(N__timestamp, IntVal(200))>>),
      RunRecord("A", "t", "r3",
                <<Entry(N_lr, FloatVal(125))>>,
                <<Entry(N_ssim, FloatVal(9102500)), Entry(N__timestamp, IntVal(150))>>),
      RunRecord("A", "t", "r4",
                <<Entry(N_lr, FloatVal(200000))>>,
                <<Entry(N_psnr, FloatVal(301234500)), Entry(N__timestamp, IntVal(120))>>) }

MaxRunsTopN == 3

MaxNLargest == 2

TopNOptions ==
    [group_filter : {"A"},
     jt_filter : {""},
     config_filter : {<<>>},
     results_filter : {<<N_ssim>>, <<N_ssim, N_psnr>>},
     include_timestamp : {FALSE},
     sort_by : {<<>>, <<N_lr>>},
     best_metric : {<<>>, N_ssim},
     n_largest : 0..MaxNLargest]

InitTopN == Start(RunLists(TopNPool, MaxRunsTopN), TopNOptions)

SpecTopN == InitTopN /\ [][Next]_vars

(* The runs and options of remove_constant_columns: a config key seed that
   is the int 1, the float 1.0, the text "1", the text "nan" or missing *)
N_seed == <<"s","e","e","d">>

PrunePool ==
    { RunRecord("A", "t", "p",
                <<Entry(N_seed, IntVal(1))>>,
                <<Entry(N_ssim, FloatVal(8231000))>>),
      RunRecord("A", "t", "p",
                <<Entry(N_seed, FloatVal(Unit))>>,
                <<Entry(N_ssim, FloatVal(8231000))>>),
      RunRecord("A", "t", "p",
                <<Entry(N_seed, StrVal("1"))>>,
                <<Entry(N_ssim, FloatVal(9102000))>>),
      RunRecord("A", "t", "q",
                <<>>,
                <<Entry(N_ssim, FloatVal(9102000))>>),
      RunRecord("A", "t", "q",
                <<Entry(N_seed, StrVal("nan"))>>,
                <<Entry(N_ssim, FloatVal(8231000))>>) }

MaxRunsPrune == 2

PruneOptions ==
    [group_filter : {""},
     jt_filter : {""},
     config_filter : {<<>>, <<N_different>>, <<Title(N_different)>>},
     results_filter : {<<>>, <<N_ssim>>},
     include_timestamp : {FALSE},
     sort_by : {<<>>},
     best_metric : {<<>>},
     n_largest : {5}]

InitPrune == Start(RunLists(PrunePool, MaxRunsPrune), PruneOptions)

SpecPrune == InitPrune /\ [][Next]_vars

(* The runs of the rounding stage: one summary key each, a name that holds a
   marker in lower case or in another case, with a float of seven decimals:
   0.1234567 is 1234567, 12.5555555 is 125555555 *)
MarkedNames ==
    { N_accuracy, N_f1_score, N_lr, N_ssim, N_psnr, N_sam, N_ergas, N_timestamp,
      <<"v","a","l","_">> \o N_ssim,
      <<"L","R">>,
      <<"V","a","l","_","A","c","c","u","r","a","c","y">>,
      <<"F","1","_","S","c","o","r","e">>,
      <<"S","S","I","M">> }

RoundPool ==
    { RunRecord("A", "t", "r", <<>>, <<Entry(name, FloatVal(x))>>) :
        name \in MarkedNames, x \in {1234567, 125555555} }

MaxRunsRound == 1

RoundOptions ==
    [group_filter : {""},
     jt_filter : {""},
     config_filter : {<<>>},
     results_filter : {<<>>},
     include_timestamp : {FALSE},
     sort_by : {<<>>},
     best_metric : {<<>>},
     n_largest : {5}]

InitRound == Start(RunLists(RoundPool, MaxRunsRound), RoundOptions)

SpecRound == InitRound /\ [][Next]_vars

(* The runs of the rename stage: one run with one config key and one summary
   key, each a short name over l, r, n and the two separators, or one of the
   names written out *)
MaxNameLen == 2

NameChars == {"l", "r", "n", "_", "/"}

N_train_lr == <<"t","r","a","i","n","/","l","r">>

N_model_nn_type == <<"m","o","d","e","l","_","n","n","_","t","y","p","e">>

NamePool ==
    UNION {[1..k -> NameChars] : k \in 1..MaxNameLen}
    \cup { N_train_lr, N_model_nn_type,
           <<"v","a","l","/","l","o","s","s">>, <<"v","a","l","_","l","o","s","s">> }

NamesPool ==
    { RunRecord("A", "t", "r", <<Entry(a, IntVal(1))>>, <<Entry(b, IntVal(2))>>) :
        a \in NamePool, b \in NamePool }

InitNames == Start({<<r>> : r \in NamesPool}, RoundOptions)

SpecNames == InitNames /\ [][Next]_vars

----------------------------------------------------------------------------
(* What the claims speak of, in their own words *)

\* a run matches the group and job-type filters
RunMatches(run) ==
    /\ (run.group = opt.group_filter \/ opt.group_filter = "")
    /\ (run.job_type = opt.jt_filter \/ opt.jt_filter = "")

\* the run's summary holds a key of results_filter
HasRequestedMetric(run) ==
    \E n \in 1..Len(opt.results_filter) : \E m \in 1..Len(run.summary) :
        run.summary[m].k = opt.results_filter[n]

\* the run is to give a row
GivesRow(run) ==
    RunMatches(run) /\ (opt.results_filter = <<>> \/ HasRequestedMetric(run))

ExpectedRows == Cardinality({n \in 1..Len(runs) : GivesRow(runs[n])})

SomeRunMatches == \E n \in 1..Len(runs) : RunMatches(runs[n])

\* filter_runs has ended: it returned the frame, or it raised
FilterEnded == pc # "filter_runs"

FilterRaised(type) ==
    pc = "raised" /\ err.at = "filter_runs" /\ err.type = type

FilterReturned == FilterEnded /\ ~(pc = "raised" /\ err.at = "filter_runs")

\* config_filter names config keys
NamesConfigKeys ==
    opt.config_filter # <<>> /\ Lower(opt.config_filter[1]) # N_different

NamedKeys == {opt.config_filter[n] : n \in 1..Len(opt.config_filter)}

ConfigHolds(run, key) == \E m \in 1..Len(run.config) : run.config[m].k = key

SomeMatchingRunLacksKey ==
    \E n \in 1..Len(runs) : \E key \in NamedKeys :
        RunMatches(runs[n]) /\ ~ConfigHolds(runs[n], key)

----------------------------------------------------------------------------
(* C2 *)

----------------------------------------------------------------------------
(* C3 *)

\* the loop of filter_runs ran over every run
LoopCompleted == i > Len(runs) /\ ~FilterRaised("KeyError")

\* no run matches, or results_filter is given and no matching run holds a
\* requested metric
NoRowSurvives ==
    \/ ~SomeRunMatches
    \/ /\ opt.results_filter # <<>>
       /\ \A n \in 1..Len(runs) : RunMatches(runs[n]) => ~HasRequestedMetric(runs[n])

\* C3: when zero rows survive the filtering (no run matches, or results_filter
\* is given and no matching run holds a requested metric), filter_runs raises
\* the no-match error, nothing catches it, and the file is not written in a
\* run in which it was raised.
C3_NoMatchError ==
    /\ (LoopCompleted /\ Len(output) = 0) <=> (LoopCompleted /\ NoRowSurvives)
    /\ (FilterEnded /\ LoopCompleted /\ NoRowSurvives)
           => FilterRaised("Exception") /\ saved = NoFile
    /\ err.type = "Exception"
           => pc = "raised" /\ saved = NoFile /\ df = NoFrame /\ ~ENABLED Next

\* the no-match error raised although runs matched the filters
C3_Witness ==
    /\ FilterRaised("Exception")
    /\ SomeRunMatches
    /\ opt.results_filter # <<>>
    /\ saved = NoFile

----------------------------------------------------------------------------
(* C7 *)

----------------------------------------------------------------------------
(* C10 *)

\* the runs, so far passed by the loop, that gave a row
EmittedRuns ==
    LET gave(n) == GivesRow(runs[n])
    IN  SelectSeq([n \in 1..(IF i - 1 < Len(runs) THEN i - 1 ELSE Len(runs)) |-> n], gave)

\* C10: every row filter_runs emits holds, under 'group', 'job_type' and
\* 'run_name', the group, the job type and the name of the run it was built
\* from.
C10_RowIdentity ==
    (pc # "raised" /\ Len(EmittedRuns) = Len(output))
        => \A n \in 1..Len(output) :
              LET run == runs[EmittedRuns[n]]
              IN  /\ DictGet(output[n], N_group) = StrVal(run.group)
                  /\ DictGet(output[n], N_job_type) = StrVal(run.job_type)
                  /\ DictGet(output[n], N_run_name) = StrVal(run.name)

----------------------------------------------------------------------------
(* C1 *)

\* the two runs and the options of the end-to-end scenario
EndToEndInput ==
    /\ runs = << RunRecord("A", "t", "r1",
                    <<Entry(N_lr, FloatVal(100000))>>,
                    <<Entry(N_ssim, FloatVal(8231000)), Entry(N__timestamp, IntVal(100))>>),
                 RunRecord("A", "t", "r2",
                    <<Entry(N_lr, FloatVal(200000))>>,
                    <<Entry(N_ssim, FloatVal(9102000)), Entry(N__timestamp, IntVal(200))>>) >>
    /\ opt = [group_filter |-> "A", jt_filter |-> "", config_filter |-> <<>>,
              results_filter |-> <<N_ssim>>, include_timestamp |-> FALSE,
              sort_by |-> <<>>, best_metric |-> N_ssim, n_largest |-> 1]

\* C1: on the two runs of the scenario, with group_filter 'A', results_filter
\* ['ssim'], best_metric 'ssim' and n_largest 1, main ends without an error
\* and writes a table of exactly one row whose 'Ssim' is 0.9102 and that has
\* no timestamp column.
C1_EndToEnd ==
    EndToEndInput
        => /\ pc # "raised"
           /\ pc = "done"
                => /\ Len(saved) = 1
                   /\ Len(saved[1].rows) = 1
                   /\ ColumnAt(saved[1], <<"S","s","i","m">>) # 0
                   /\ saved[1].rows[1][ColumnAt(saved[1], <<"S","s","i","m">>)]
                          = FloatVal(9102000)
                   /\ \A c \in 1..Len(saved[1].columns) :
                          ~Contains(N_timestamp, Lower(saved[1].columns[c]))

----------------------------------------------------------------------------
(* C5 *)

\* x is strictly larger than y
Larger(x, y) == x.t # "nan" /\ y.t # "nan" /\ x.v > y.v

SameMetric(x, y) == x.t = y.t /\ x.v = y.v

\* the top-N stage took the frame a to the frame b
TopNKeeps(a, b) ==
    LET c == ColumnAt(a, opt.best_metric)
        was(n) == IndexIn(b.index[n], a.index)
    IN  /\ Len(b.rows) = (IF opt.n_largest < Len(a.rows) THEN opt.n_largest ELSE Len(a.rows))
        /\ Len(b.index) = Len(b.rows)
        /\ b.columns = a.columns
        /\ \A n \in 1..Len(b.rows) : was(n) # 0 /\ b.rows[n] = a.rows[was(n)]
        /\ \A u, v \in 1..Len(b.rows) :
              u < v => /\ ~Larger(b.rows[v][c], b.rows[u][c])
                       /\ was(u) # was(v)
                       /\ SameMetric(b.rows[u][c], b.rows[v][c]) => was(u) < was(v)
        /\ \A m \in 1..Len(a.rows) :
              (\A n \in 1..Len(b.rows) : was(n) # m)
                  => \A n \in 1..Len(b.rows) : ~Larger(a.rows[m][c], b.rows[n][c])

----------------------------------------------------------------------------
(* C9 *)

\* the decimals of the first marker, in the order of the code, that the name
\* holds in any case; -1 when it holds none
RECURSIVE MarkerDecimals(_, _)
MarkerDecimals(col, bs) ==
    IF bs = <<>> THEN 0 - 1
    ELSE IF Contains(Head(bs).marker, Lower(col)) THEN Head(bs).decimals
    ELSE MarkerDecimals(col, Tail(bs))

\* the rounding stage took the frame a to the frame b, rounding a marker
\* column when its cell in the first row of a is a float
RoundsByFirstRow(a, b) ==
    /\ b.index = a.index
    /\ b.columns = a.columns
    /\ \A c \in 1..Len(a.columns) : \A r \in 1..Len(a.rows) :
          LET k == MarkerDecimals(a.columns[c], RoundBranches)
          IN  b.rows[r][c] = IF k >= 0 /\ IsFloat(a.rows[1][c]) /\ a.rows[r][c].t = "float"
                             THEN FloatVal(RoundTo(a.rows[r][c].v, k))
                             ELSE a.rows[r][c]

\* C9: on every non-empty table that reaches the rounding stage, after any
\* sort_by and top-N stage, the rounding stage ends without an error, and
\* rounds a marker-named column exactly when that column's value in the first
\* row of the table, as it stands then, is a float.
C9_RoundingStage ==
    [][(pc = "round" /\ Len(df.rows) > 0)
          => (pc' = "rename" /\ RoundsByFirstRow(df, df'))]_vars

----------------------------------------------------------------------------
(* C4 *)

\* config_filter asks for the columns that differ
AsksDifferent ==
    opt.config_filter # <<>> /\ Lower(opt.config_filter[1]) = N_different

\* the number of distinct str values of column number c of the frame d
DistinctStr(d, c) == Cardinality({Str(d.rows[r][c]) : r \in 1..Len(d.rows)})

\* the frame b keeps, of the frame a, the columns of at least two distinct
\* str values, with their cells, and every row
PrunedFrom(a, b) ==
    /\ b.index = a.index
    /\ Len(b.rows) = Len(a.rows)
    /\ \A c \in 1..Len(b.columns) : ColumnAt(a, b.columns[c]) # 0
    /\ \A c \in 1..Len(a.columns) :
          IF ColumnAt(b, a.columns[c]) # 0
          THEN /\ DistinctStr(a, c) >= 2
               /\ \A r \in 1..Len(a.rows) :
                     b.rows[r][ColumnAt(b, a.columns[c])] = a.rows[r][c]
          ELSE DistinctStr(a, c) = 1

\* C4: of the table given to remove_constant_columns (of one row or more,
\* with cells that are NaN where a row lacks the key), every column kept has
\* at least two distinct str values over the rows, every column dropped has
\* exactly one, and the rows and the cells of the kept columns are unchanged.
C4_ConstantColumns ==
    (pc = "sort" /\ AsksDifferent) => PrunedFrom(DataFrame(output), df)

\* a column kept and a column dropped whose cells are not all the same
\* (the int 1 beside the text "1", or the text "nan" beside a missing cell)
C4_Witness ==
    /\ pc = "sort"
    /\ AsksDifferent
    /\ Len(df.rows) = 2
    /\ Len(df.columns) >= 1
    /\ \E c \in 1..Len(DataFrame(output).columns) :
          /\ ColumnAt(df, DataFrame(output).columns[c]) = 0
          /\ DataFrame(output).rows[1][c] # DataFrame(output).rows[2][c]

----------------------------------------------------------------------------
(* C6 *)

\* the markers a name holds when the two are compared in lower case
MarkersOf(col) ==
    {n \in 1..Len(RoundBranches) : Contains(RoundBranches[n].marker, Lower(col))}

\* C6: the rounding stage rounds every column of floats whose name holds a
\* marker, in any case, to the marker's decimals: accuracy 2, f1_score 3,
\* lr 6, ssim 4, psnr 3, sam 3, ergas 3, timestamp 0; so 'val_ssim' to 4,
\* 'lr' to 6, 'LR' to 6, 'Val_Accuracy' to 2 and 'F1_Score' to 3.
C6_Rounding ==
    pc = "rename"
        => \A c \in 1..Len(df.columns) : \A n \in MarkersOf(df.columns[c]) :
              \A r \in 1..Len(df.rows) :
                 LET was == DataFrame(output).rows[df.index[r] + 1]
                                [ColumnAt(DataFrame(output), df.columns[c])]
                 IN  was.t = "float"
                        => df.rows[r][c] = FloatVal(RoundTo(was.v, RoundBranches[n].decimals))

----------------------------------------------------------------------------
(* C8 *)

\* C8: the display names of pairwise distinct raw column names are pairwise
\* distinct, so that no two columns of the renamed table have the same name;
\* 'train/lr' maps to 'Train LR' and 'model_nn_type' to 'Model NN Type'.
C8_OneToOne ==
    /\ DisplayName(N_train_lr) = <<"T","r","a","i","n"," ","L","R">>
    /\ DisplayName(N_model_nn_type)
          = <<"M","o","d","e","l"," ","N","N"," ","T","y","p","e">>
    /\ pc \in {"to_csv", "done"}
          => \A u, v \in 1..Len(df.columns) : u # v => df.columns[u] # df.columns[v]

====
